---- MODULE Spec2Model ----
(***************************************************************************)
(* p1-exporter (src/src/main.rs): a Collector thread that connects to a    *)
(* P1 reader, decodes DSMR telegrams and stores their fields in the shared *)
(* P1Metrics, and an Exporter loop (main thread) that encodes the registry *)
(* for every scrape request.                                               *)
(*                                                                         *)
(* Every action is one statement of the source that touches shared state   *)
(* (an atomic store, a Family operation, a socket or HTTP call); the two   *)
(* threads interleave at that granularity.                                 *)
(*                                                                         *)
(* Option<T> is modelled as a sequence: None is <<>>, Some(x) is <<x>>.    *)
(* An f64 is modelled by a small natural number standing for its bit       *)
(* pattern (the stores of main.rs write f64::to_bits, a bit-for-bit        *)
(* reinterpretation); 0 is the bit pattern of the default 0.0.             *)
(* A Family is a map from label to metric: a function whose DOMAIN is the  *)
(* set of labels created so far.                                           *)
(***************************************************************************)
EXTENDS Naturals, Sequences, FiniteSets, TLC

\* ---------------------------------------------------------------- bounds
\* Meter values range over 0..MaxVal.
MaxVal == 1
\* Number of sub-devices (slaves) carried by one Reading.
MaxSlaves == 2
\* Scrape requests that can wait in the server's queue at once.
MaxQueue == 1

\* ------------------------------------------------------------- constants
\* device_type of a gas meter (main.rs:169)
GasMeter == 3
\* a device type that is not a gas meter
OtherDevice == GasMeter - 1
\* status of Response::from_string (main.rs:193)
StatusOk == 200
\* status set by with_status_code (main.rs:194)
StatusError == 500

None == <<>>
Some(x) == <<x>>
IsSome(o) == o # None
Unwrap(o) == o[1]

Vals == 0..MaxVal
Opt(S) == {None} \cup {Some(x) : x \in S}

\* the empty Family
EmptyFamily == [t \in {} |-> 0]

\* tariff_indicator codes: [0,1] is low, [0,2] is high, [0,3] is neither
TariffLow == <<0, 1>>
TariffHigh == <<0, 2>>
TariffCodes == {TariffLow, TariffHigh, <<0, 3>>}

\* The kinds of field a meter can emit; one run's meter emits the kinds in
\* the variable `meter` (a meter without a gas slave never reports slaves).
\* A profile is one kind or two kinds of the electricity meter itself, or
\* the sub-devices alone.
FieldKinds ==
  {"power_delivered", "power_received", "to0", "to1", "by0", "by1",
   "tariff_indicator", "slaves"}
Profiles == {{a, b} : a, b \in FieldKinds \ {"slaves"}} \cup {{"slaves"}}
\* The profiles checked together with the Exporter: meters without
\* sub-devices that emit one kind of field, or instantaneous consumed power
\* next to produced power or the tariff.
ScrapeProfiles ==
  {{k} : k \in FieldKinds \ {"slaves"}}
    \cup {{"power_delivered", k} : k \in {"power_received", "tariff_indicator"}}

\* The profile the progress properties are checked over: they do not depend
\* on what a Reading carries.
LiveProfiles == {{"tariff_indicator"}}

Slaves == [device_type : Opt({GasMeter, OtherDevice}), meter_reading : Opt(Vals)]
NoSlave == [device_type |-> None, meter_reading |-> None]
SlaveSeqs == [1..MaxSlaves -> Slaves]

\* dsmr5::state::State restricted to the fields main.rs reads
FieldOpt(m, k, S) == IF k \in m THEN Opt(S) ELSE {None}
Readings(m) ==
  [power_delivered : FieldOpt(m, "power_delivered", Vals),
   power_received : FieldOpt(m, "power_received", Vals),
   to0 : FieldOpt(m, "to0", Vals),
   to1 : FieldOpt(m, "to1", Vals),
   by0 : FieldOpt(m, "by0", Vals),
   by1 : FieldOpt(m, "by1", Vals),
   tariff_indicator : FieldOpt(m, "tariff_indicator", TariffCodes),
   slaves : IF "slaves" \in m THEN SlaveSeqs ELSE {[i \in 1..MaxSlaves |-> NoSlave]}]

VARIABLES
  meter,                 \* the kinds of field this run's meter emits
  alive,                 \* the process is running
  pc,                    \* Collector thread: position in its loop
  sock,                  \* the Collector's TcpStream: "none", "open", "closed"
  read_timeout,          \* the read timeout is set on sock
  stalled,               \* the peer of sock has stopped delivering bytes
  ending,                \* why the last connection attempt ended ("none": running)
  logged,                \* a failure was logged since the last connect
  slept,                 \* thread::sleep calls since the last connect (0 or 1)
  state,                 \* Option: the decoded Reading being applied
  sl,                    \* index of the slave the for loop is at
  run,                   \* history of the Readings decoded so far: "fresh" (none
                         \* applied yet), "valid" (one applied, each with a low or
                         \* high tariff indicator), "mixed" (some Reading without)
  power_consumed,
  power_produced,
  power_consumed_total,
  power_produced_total,
  active_tariff,
  gas_consumed_total,
  epc,                   \* Exporter (main thread): position
  queue,                 \* scrape requests waiting in the server
  body,                  \* the String encode() writes into
  encoded,               \* the Result of encode(): "none", "ok", "err"
  torn,                  \* history of encode()'s reads of the two power gauges:
                         \* "half" when power_consumed was read after the Reading
                         \* being applied stored it and before that Reading stored
                         \* power_produced, "yes" when power_produced was then read
                         \* still before that store, "no" otherwise
  snap_run,              \* the value of run when encode() read active_tariff
                         \* ("none" before that read and after encode() returned)
  response,              \* Option: the Response built for the current request
  responded,             \* respond calls made for the current request
  delivered              \* Option: the response the client received

store == <<power_consumed, power_produced, power_consumed_total,
           power_produced_total, active_tariff, gas_consumed_total>>
collector == <<pc, sock, read_timeout, stalled, ending, logged, slept, state, sl, run>>
exporter == <<epc, queue, body, encoded, torn, snap_run, response, responded, delivered>>
vars == <<meter, alive, store, collector, exporter>>

InitWith(profiles) ==
  /\ meter \in profiles
  /\ alive = TRUE
  /\ pc = "connect"
  /\ sock = "none"
  /\ read_timeout = FALSE
  /\ stalled = FALSE
  /\ ending = "none"
  /\ logged = FALSE
  /\ slept = 0
  /\ state = None
  /\ sl = 1
  /\ run = "fresh"
  /\ power_consumed = 0
  /\ power_produced = 0
  /\ power_consumed_total = EmptyFamily
  /\ power_produced_total = EmptyFamily
  /\ active_tariff = EmptyFamily
  /\ gas_consumed_total = 0
  /\ epc = "bind"
  /\ queue = 0
  /\ body = <<>>
  /\ encoded = "none"
  /\ torn = "no"
  /\ snap_run = "none"
  /\ response = None
  /\ responded = 0
  /\ delivered = None

Init == InitWith(ScrapeProfiles)
InitLive == InitWith(LiveProfiles)
InitCollector == InitWith(Profiles)

\* ------------------------------------------------------- Family operations
\* Family::get_or_create: the metric under label t, created at its default
\* value 0 when the label is new.
GetOrCreate(fam, t) ==
  IF t \in DOMAIN fam THEN fam
  ELSE [x \in DOMAIN fam \cup {t} |-> IF x = t THEN 0 ELSE fam[x]]

\* store / set on the metric under label t
StoreAt(fam, t, v) == [fam EXCEPT ![t] = v]

\* Mutant of Clear: the labels are kept.
ClearKeepsLabels(fam) == fam

\* Family::clear: removes every label
Clear(fam) == EmptyFamily

\* get_or_create(label).inner().store(bits): when the label is new the
\* Family first gains the label at 0 (visible to a concurrent encode), and
\* the store follows as a second step.
StoreInFamily(fam, t, v) ==
  IF t \in DOMAIN fam THEN StoreAt(fam, t, v) ELSE GetOrCreate(fam, t)

\* the label a tariff_indicator selects, if any (match at main.rs:155-165)
TariffLabel(ind) ==
  IF ind = Some(TariffLow) THEN Some("low")
  ELSE IF ind = Some(TariffHigh) THEN Some("high")
  ELSE None

\* Mutant of IsGasReading: the device type is not looked at.
IsAnyReading(s) == IsSome(s.meter_reading)

\* the pattern Slave { device_type: Some(3), meter_reading: Some((_, gd)) }
IsGasReading(s) == s.device_type = Some(GasMeter) /\ IsSome(s.meter_reading)

\* --------------------------------------------------------------- Collector
\* Mutant of Return: the TcpStream outlives collect_metrics.
ReturnKeepsSocket(why, to) ==
  /\ ending' = why
  /\ pc' = to
  /\ UNCHANGED <<sock, read_timeout, stalled, logged, slept, state, sl, run>>

\* Dropping the TcpStream when collect_metrics returns closes the socket.
Return(why, to) ==
  /\ sock' = "closed"
  /\ stalled' = FALSE
  /\ ending' = why
  /\ pc' = to
  /\ UNCHANGED <<read_timeout, logged, slept, state, sl, run>>

\* Mutant of ConnectOk: a new connection starts from a fresh P1Metrics.
ConnectOkResets ==
  /\ alive /\ pc = "connect"
  /\ sock' = "open"
  /\ read_timeout' = FALSE
  /\ stalled' = FALSE
  /\ ending' = "none"
  /\ logged' = FALSE
  /\ slept' = 0
  /\ pc' = "set_read_timeout"
  /\ power_consumed' = 0
  /\ power_produced' = 0
  /\ power_consumed_total' = EmptyFamily
  /\ power_produced_total' = EmptyFamily
  /\ active_tariff' = EmptyFamily
  /\ gas_consumed_total' = 0
  /\ UNCHANGED <<meter, alive, exporter, state, sl, run>>

\* TcpStream::connect succeeds (main.rs:92-93)
ConnectOk ==
  /\ alive /\ pc = "connect"
  /\ sock' = "open"
  /\ read_timeout' = FALSE
  /\ stalled' = FALSE
  /\ ending' = "none"
  /\ logged' = FALSE
  /\ slept' = 0
  /\ pc' = "set_read_timeout"
  /\ UNCHANGED <<meter, alive, store, exporter, state, sl, run>>

\* TcpStream::connect fails (main.rs:98)
ConnectErr ==
  /\ alive /\ pc = "connect"
  /\ ending' = "connect"
  /\ logged' = FALSE
  /\ slept' = 0
  /\ pc' = "log_connect"
  /\ UNCHANGED <<meter, alive, store, exporter, sock, read_timeout, stalled, state, sl, run>>

\* Mutant of LogConnect: the Err arm goes straight back to connect.
LogConnectRetriesAtOnce ==
  /\ alive /\ pc = "log_connect"
  /\ logged' = TRUE
  /\ pc' = "connect"
  /\ UNCHANGED <<meter, alive, store, exporter, sock, read_timeout, stalled, ending, slept, state, sl, run>>

\* eprintln!("Failed to connect to P1 reader") (main.rs:99)
LogConnect ==
  /\ alive /\ pc = "log_connect"
  /\ logged' = TRUE
  /\ pc' = "sleep"
  /\ UNCHANGED <<meter, alive, store, exporter, sock, read_timeout, stalled, ending, slept, state, sl, run>>

\* Mutant of SetReadTimeoutOk: the stream is read with no timeout set.
SetReadTimeoutSkipped ==
  /\ alive /\ pc = "set_read_timeout"
  /\ read_timeout' = FALSE
  /\ pc' = "next"
  /\ UNCHANGED <<meter, alive, store, exporter, sock, stalled, ending, logged, slept, state, sl, run>>

\* sock.set_read_timeout succeeds (main.rs:107)
SetReadTimeoutOk ==
  /\ alive /\ pc = "set_read_timeout"
  /\ read_timeout' = TRUE
  /\ pc' = "next"
  /\ UNCHANGED <<meter, alive, store, exporter, sock, stalled, ending, logged, slept, state, sl, run>>

\* sock.set_read_timeout fails: `?` returns the error (main.rs:107)
SetReadTimeoutErr ==
  /\ alive /\ pc = "set_read_timeout"
  /\ Return("timeout_setup", "log_collect")
  /\ UNCHANGED <<meter, alive, store, exporter>>

\* The peer stops delivering bytes while the Collector reads from sock.
Stall ==
  /\ alive /\ pc = "next" /\ ~stalled
  /\ stalled' = TRUE
  /\ UNCHANGED <<meter, alive, store, exporter, pc, sock, read_timeout, ending, logged, slept,
                 state, sl, run>>

\* reader.next() yields a readout: a whole frame was read (main.rs:110)
NextReadout ==
  /\ alive /\ pc = "next" /\ ~stalled
  /\ pc' = "to_telegram"
  /\ UNCHANGED <<meter, alive, store, exporter, sock, read_timeout, stalled, ending, logged, slept, state, sl, run>>

\* The byte stream ends: map_while(|b| b.ok()) stops at a read error (a
\* timeout, a reset) just as bytes() stops at EOF; the reader yields None,
\* the for loop ends and collect_metrics returns Ok(()) (main.rs:108-110,181).
\* A peer that delivers nothing sends no EOF and no reset either: the read
\* then returns only when the read timeout set on sock expires, and blocks
\* for ever when none is set.
NextEnd ==
  /\ alive /\ pc = "next"
  /\ \E why \in {"eof", "io"} :
       /\ IF stalled THEN why = "io" /\ read_timeout ELSE TRUE
       /\ Return(why, "sleep")
  /\ UNCHANGED <<meter, alive, store, exporter>>

\* readout.to_telegram() succeeds (main.rs:111-113)
ToTelegramOk ==
  /\ alive /\ pc = "to_telegram"
  /\ pc' = "from"
  /\ UNCHANGED <<meter, alive, store, exporter, sock, read_timeout, stalled, ending, logged, slept, state, sl, run>>

\* Mutant of ToTelegramErr: the bad telegram is skipped and the same
\* connection is read on.
ToTelegramErrSkips ==
  /\ alive /\ pc = "to_telegram"
  /\ ending' = "decode"
  /\ pc' = "next"
  /\ UNCHANGED <<meter, alive, store, exporter, sock, read_timeout, stalled, logged, slept,
                 state, sl, run>>

\* readout.to_telegram() fails: `?` returns the error (main.rs:111-113)
ToTelegramErr ==
  /\ alive /\ pc = "to_telegram"
  /\ Return("decode", "log_collect")
  /\ UNCHANGED <<meter, alive, store, exporter>>

\* Result::<State>::from(&telegram) yields the Reading (main.rs:114-115)
FromOk ==
  /\ alive /\ pc = "from"
  /\ \E r \in Readings(meter) :
       /\ state' = Some(r)
       /\ run' = IF IsSome(TariffLabel(r.tariff_indicator)) THEN run ELSE "mixed"
  /\ sl' = 1
  /\ pc' = "power_consumed"
  /\ UNCHANGED <<meter, alive, store, exporter, sock, read_timeout, stalled, ending, logged, slept>>

\* Mutant of FromErr: the tariff indicators are cleared before the
\* telegram is found invalid.
FromErrAfterClear ==
  /\ alive /\ pc = "from"
  /\ Return("decode", "log_collect")
  /\ active_tariff' = EmptyFamily
  /\ UNCHANGED <<meter, alive, exporter, power_consumed, power_produced,
                 power_consumed_total, power_produced_total, gas_consumed_total>>

\* Result::<State>::from(&telegram) fails: `?` returns the error
\* (main.rs:114-115)
FromErr ==
  /\ alive /\ pc = "from"
  /\ Return("decode", "log_collect")
  /\ UNCHANGED <<meter, alive, store, exporter>>

\* Mutant of LogCollect: the thread's loop is left after a failed collect.
LogCollectBreaks ==
  /\ alive /\ pc = "log_collect"
  /\ logged' = TRUE
  /\ pc' = "done"
  /\ UNCHANGED <<meter, alive, store, exporter, sock, read_timeout, stalled, ending, slept,
                 state, sl, run>>

\* eprintln!("Failed to collect metrics") (main.rs:94-96)
LogCollect ==
  /\ alive /\ pc = "log_collect"
  /\ logged' = TRUE
  /\ pc' = "sleep"
  /\ UNCHANGED <<meter, alive, store, exporter, sock, read_timeout, stalled, ending, slept, state, sl, run>>

\* thread::sleep(Duration::from_secs(5)), then the loop starts over
\* (main.rs:102)
Sleep ==
  /\ alive /\ pc = "sleep"
  /\ slept' = slept + 1
  /\ pc' = "connect"
  /\ UNCHANGED <<meter, alive, store, exporter, sock, read_timeout, stalled, ending, logged, state, sl, run>>

\* ------------------------------------------------- Collector: apply a Reading
Applying(step) == alive /\ pc = step /\ IsSome(state)
Goto(step) ==
  /\ pc' = step
  /\ UNCHANGED <<meter, alive, exporter, sock, read_timeout, stalled, ending, logged, slept, state, sl, run>>

\* Mutant of SetPowerConsumed: both power gauges are stored in one step.
SetBothPowers ==
  /\ Applying("power_consumed")
  /\ LET r == Unwrap(state) IN
       /\ power_consumed' = IF IsSome(r.power_delivered) THEN Unwrap(r.power_delivered)
                                                        ELSE power_consumed
       /\ power_produced' = IF IsSome(r.power_received) THEN Unwrap(r.power_received)
                                                       ELSE power_produced
  /\ Goto("power_produced")
  /\ UNCHANGED <<power_consumed_total, power_produced_total, active_tariff, gas_consumed_total>>

\* main.rs:117-119
SetPowerConsumed ==
  /\ Applying("power_consumed")
  /\ LET o == Unwrap(state).power_delivered IN
       power_consumed' = IF IsSome(o) THEN Unwrap(o) ELSE power_consumed
  /\ Goto("power_produced")
  /\ UNCHANGED <<power_produced, power_consumed_total, power_produced_total,
                 active_tariff, gas_consumed_total>>

\* main.rs:120-122
SetPowerProduced ==
  /\ Applying("power_produced")
  /\ LET o == Unwrap(state).power_received IN
       power_produced' = IF IsSome(o) THEN Unwrap(o) ELSE power_produced
  /\ pc' = "consumed_low"
  /\ torn' = IF torn = "half" THEN "no" ELSE torn
  /\ UNCHANGED <<meter, alive, epc, queue, body, encoded, snap_run, response, responded,
                 delivered, sock, read_timeout, stalled, ending, logged, slept, state, sl, run>>
  /\ UNCHANGED <<power_consumed, power_consumed_total, power_produced_total,
                 active_tariff, gas_consumed_total>>

\* One `if let Some(pd) = ... { family.get_or_create(label).inner().store(..) }`:
\* the new family value and whether the statement is finished.
\* Mutant of EnergyStep: an absent field resets the counter to 0.
EnergyStepResets(fam, o, t) ==
  StoreInFamily(fam, t, IF IsSome(o) THEN Unwrap(o) ELSE 0)

EnergyStep(fam, o, t) == IF IsSome(o) THEN StoreInFamily(fam, t, Unwrap(o)) ELSE fam
EnergyDone(fam, o, t) == ~IsSome(o) \/ t \in DOMAIN fam

\* main.rs:124-130
StoreConsumedLow ==
  /\ Applying("consumed_low")
  /\ LET o == Unwrap(state).to0 IN
       /\ power_consumed_total' = EnergyStep(power_consumed_total, o, "low")
       /\ Goto(IF EnergyDone(power_consumed_total, o, "low") THEN "consumed_high" ELSE pc)
  /\ UNCHANGED <<power_consumed, power_produced, power_produced_total,
                 active_tariff, gas_consumed_total>>

\* main.rs:131-137
StoreConsumedHigh ==
  /\ Applying("consumed_high")
  /\ LET o == Unwrap(state).to1 IN
       /\ power_consumed_total' = EnergyStep(power_consumed_total, o, "high")
       /\ Goto(IF EnergyDone(power_consumed_total, o, "high") THEN "produced_low" ELSE pc)
  /\ UNCHANGED <<power_consumed, power_produced, power_produced_total,
                 active_tariff, gas_consumed_total>>

\* main.rs:139-145
StoreProducedLow ==
  /\ Applying("produced_low")
  /\ LET o == Unwrap(state).by0 IN
       /\ power_produced_total' = EnergyStep(power_produced_total, o, "low")
       /\ Goto(IF EnergyDone(power_produced_total, o, "low") THEN "produced_high" ELSE pc)
  /\ UNCHANGED <<power_consumed, power_produced, power_consumed_total,
                 active_tariff, gas_consumed_total>>

\* main.rs:146-152
StoreProducedHigh ==
  /\ Applying("produced_high")
  /\ LET o == Unwrap(state).by1 IN
       /\ power_produced_total' = EnergyStep(power_produced_total, o, "high")
       /\ Goto(IF EnergyDone(power_produced_total, o, "high") THEN "tariff_clear" ELSE pc)
  /\ UNCHANGED <<power_consumed, power_produced, power_consumed_total,
                 active_tariff, gas_consumed_total>>

\* metrics.active_tariff.clear() (main.rs:154)
ClearActiveTariff ==
  /\ Applying("tariff_clear")
  /\ active_tariff' = Clear(active_tariff)
  /\ Goto("tariff_match")
  /\ UNCHANGED <<power_consumed, power_produced, power_consumed_total,
                 power_produced_total, gas_consumed_total>>

\* Mutant of TariffStep: the slot is created but never set to 1.
TariffStepNeverSets(fam, l) ==
  IF IsSome(l) THEN GetOrCreate(fam, Unwrap(l)) ELSE fam

\* match state.tariff_indicator: get_or_create(label), then set(1); any
\* other indicator, or none, does nothing (main.rs:155-165)
TariffStep(fam, l) ==
  IF ~IsSome(l) THEN fam
  ELSE IF Unwrap(l) \in DOMAIN fam THEN StoreAt(fam, Unwrap(l), 1)
  ELSE GetOrCreate(fam, Unwrap(l))

SetActiveTariff ==
  /\ Applying("tariff_match")
  /\ LET l == TariffLabel(Unwrap(state).tariff_indicator) IN
       /\ active_tariff' = TariffStep(active_tariff, l)
       /\ IF ~IsSome(l) \/ Unwrap(l) \in DOMAIN active_tariff
          THEN /\ pc' = "slaves"
               /\ UNCHANGED <<meter, alive, exporter, sock, read_timeout, stalled, ending,
                              logged, slept, state, sl, run>>
          ELSE Goto(pc)
  /\ UNCHANGED <<power_consumed, power_produced, power_consumed_total,
                 power_produced_total, gas_consumed_total>>

\* One iteration of `for sl in state.slaves` (main.rs:167-178); after the
\* last slave the Reading is dropped and the reader is asked for the next.
GasStep(gas, s) == IF IsGasReading(s) THEN Unwrap(s.meter_reading) ELSE gas

StoreGas ==
  /\ Applying("slaves")
  /\ gas_consumed_total' = GasStep(gas_consumed_total, Unwrap(state).slaves[sl])
  /\ IF sl < MaxSlaves
     THEN /\ sl' = sl + 1
          /\ UNCHANGED <<pc, state, run>>
     ELSE /\ sl' = 1
          /\ pc' = "next"
          /\ state' = None
          /\ run' = IF run = "fresh" THEN "valid" ELSE run
  /\ UNCHANGED <<meter, alive, exporter, sock, read_timeout, stalled, ending, logged, slept>>
  /\ UNCHANGED <<power_consumed, power_produced, power_consumed_total,
                 power_produced_total, active_tariff>>

Apply ==
  \/ SetPowerConsumed
  \/ SetPowerProduced
  \/ StoreConsumedLow
  \/ StoreConsumedHigh
  \/ StoreProducedLow
  \/ StoreProducedHigh
  \/ ClearActiveTariff
  \/ SetActiveTariff
  \/ StoreGas

Collector ==
  \/ ConnectOk
  \/ ConnectErr
  \/ LogConnect
  \/ SetReadTimeoutOk
  \/ SetReadTimeoutErr
  \/ NextReadout
  \/ NextEnd
  \/ ToTelegramOk
  \/ ToTelegramErr
  \/ FromOk
  \/ FromErr
  \/ LogCollect
  \/ Sleep
  \/ Apply

\* ---------------------------------------------------------------- Exporter
\* the header parsed at main.rs:185
OpenMetrics == "application/openmetrics-text; version=1.0.0; charset=utf-8"
\* the Content-Type Response::from_string gives a response
TextPlain == "text/plain; charset=UTF-8"
\* format!("{}", err) of the std::fmt::Error encode returns (main.rs:194)
FmtError == <<"an error occurred when formatting an argument">>
\* the text encode() ends a successful exposition with
Eof == <<"# EOF">>

\* Server::http(addr) binds the listen address (main.rs:188)
BindOk ==
  /\ alive /\ epc = "bind"
  /\ epc' = "accept"
  /\ UNCHANGED <<meter, alive, store, collector, queue, body, encoded, torn, snap_run, response,
                 responded, delivered>>

\* Server::http fails: run_metrics_server returns the error, main prints
\* "terminating" and returns, and the process ends with all its threads
\* (main.rs:85-88, 188)
BindErr ==
  /\ alive /\ epc = "bind"
  /\ epc' = "exit"
  /\ alive' = FALSE
  /\ UNCHANGED <<meter, store, collector, queue, body, encoded, torn, snap_run, response,
                 responded, delivered>>

\* server.incoming_requests() yields None: the iterator ends once the
\* listening server has shut down (it stopped accepting) and the requests it
\* had queued are served; the for loop ends, run_metrics_server returns
\* Ok(()), main returns without printing, and the process ends with all its
\* threads (main.rs:85-88, 190, 201)
IncomingEnds ==
  /\ alive /\ epc = "accept"
  /\ queue = 0
  /\ epc' = "returned"
  /\ alive' = FALSE
  /\ UNCHANGED <<meter, store, collector, queue, body, encoded, torn, snap_run, response,
                 responded, delivered>>

\* a client sends a scrape request to the listening server
Arrive ==
  /\ alive /\ epc \notin {"bind", "exit"}
  /\ queue < MaxQueue
  /\ queue' = queue + 1
  /\ UNCHANGED <<meter, alive, store, collector, epc, body, encoded, torn, snap_run, response,
                 responded, delivered>>

\* server.incoming_requests() yields the next request; the loop body starts
\* with a fresh String (main.rs:190-191)
Accept ==
  /\ alive /\ epc = "accept"
  /\ queue > 0
  /\ queue' = queue - 1
  /\ body' = <<>>
  /\ encoded' = "none"
  /\ response' = None
  /\ responded' = 0
  /\ delivered' = None
  /\ epc' = "power_consumed"
  /\ UNCHANGED <<meter, alive, store, collector, torn, snap_run>>

\* The Reading being applied populates both power fields, has stored
\* power_consumed (main.rs:117-119) and has not yet stored power_produced
\* (main.rs:120-122).
MidPower ==
  /\ IsSome(state) /\ pc = "power_produced"
  /\ IsSome(Unwrap(state).power_delivered) /\ IsSome(Unwrap(state).power_received)
\* power_produced holds what an earlier Reading stored (not the gauge's
\* initial 0), and the Reading being applied is about to store another value.
OldPowerProduced ==
  /\ MidPower
  /\ power_produced # 0
  /\ power_produced # Unwrap(Unwrap(state).power_received)

\* encode() walks the registry in registration order (main.rs:53-82) and
\* reads each metric when it reaches it: a gauge or counter with one atomic
\* load, a Family under its read lock.
Encode(at, value, to) ==
  /\ alive /\ epc = at
  /\ body' = Append(body, value)
  /\ epc' = to
  /\ snap_run' = IF at = "active_tariff" THEN run ELSE snap_run
  /\ torn' = IF at = "power_consumed" THEN (IF MidPower THEN "half" ELSE "no")
             ELSE IF at = "power_produced"
               THEN (IF torn = "half" /\ OldPowerProduced THEN "yes" ELSE "no")
             ELSE torn
  /\ UNCHANGED <<meter, alive, store, collector, queue, encoded, response,
                 responded, delivered>>

EncodePowerConsumed == Encode("power_consumed", power_consumed, "power_produced")
EncodePowerProduced == Encode("power_produced", power_produced, "power_consumed_total")
EncodeConsumedTotal ==
  Encode("power_consumed_total", power_consumed_total, "power_produced_total")
EncodeProducedTotal ==
  Encode("power_produced_total", power_produced_total, "active_tariff")
EncodeActiveTariff == Encode("active_tariff", active_tariff, "gas_consumed_total")

\* Response::from_string(body).with_header(content_type) (main.rs:193)
OkResponse(b) == [status |-> StatusOk, content_type |-> OpenMetrics, body |-> b]
\* Mutant of ErrResponse: with_status_code(500) is missing.
ErrResponseStatusOk(e) == [status |-> StatusOk, content_type |-> TextPlain, body |-> e]

\* Response::from_string(format!("{}", err)).with_status_code(500) (main.rs:194)
ErrResponse(e) == [status |-> StatusError, content_type |-> TextPlain, body |-> e]

\* The last metric is read, encode() returns Ok(()) and the response is
\* built from the body (main.rs:192-193)
EncodeOk ==
  /\ alive /\ epc = "gas_consumed_total"
  /\ body' = Append(body, gas_consumed_total) \o Eof
  /\ encoded' = "ok"
  /\ torn' = "no"
  /\ snap_run' = "none"
  /\ response' = Some(OkResponse(body'))
  /\ epc' = "respond"
  /\ UNCHANGED <<meter, alive, store, collector, queue, responded, delivered>>

\* encode() returns Err at some metric (main.rs:192, 194)
EncodeErr ==
  /\ alive
  /\ epc \in {"power_consumed", "power_produced", "power_consumed_total",
              "power_produced_total", "active_tariff", "gas_consumed_total"}
  /\ encoded' = "err"
  /\ torn' = "no"
  /\ snap_run' = "none"
  /\ response' = Some(ErrResponse(FmtError))
  /\ epc' = "respond"
  /\ UNCHANGED <<meter, alive, store, collector, queue, body, responded, delivered>>

\* req.respond(response) delivers the response (main.rs:196)
RespondOk ==
  /\ alive /\ epc = "respond"
  /\ responded' = responded + 1
  /\ delivered' = response
  /\ epc' = "accept"
  /\ UNCHANGED <<meter, alive, store, collector, queue, body, encoded, torn, snap_run, response>>

\* req.respond(response) fails, e.g. the client went away (main.rs:196)
RespondErr ==
  /\ alive /\ epc = "respond"
  /\ responded' = responded + 1
  /\ epc' = "log_respond"
  /\ UNCHANGED <<meter, alive, store, collector, queue, body, encoded, torn, snap_run, response,
                 delivered>>

\* Mutant of LogRespond: the request loop is left after a failed respond.
LogRespondBreaks ==
  /\ alive /\ epc = "log_respond"
  /\ epc' = "done"
  /\ UNCHANGED <<meter, alive, store, collector, queue, body, encoded, torn, snap_run,
                 response, responded, delivered>>

\* eprintln!("failed to respond") (main.rs:197)
LogRespond ==
  /\ alive /\ epc = "log_respond"
  /\ epc' = "accept"
  /\ UNCHANGED <<meter, alive, store, collector, queue, body, encoded, torn, snap_run, response,
                 responded, delivered>>

Exporter ==
  \/ BindOk
  \/ BindErr
  \/ Accept
  \/ EncodePowerConsumed
  \/ EncodePowerProduced
  \/ EncodeConsumedTotal
  \/ EncodeProducedTotal
  \/ EncodeActiveTariff
  \/ EncodeOk
  \/ EncodeErr
  \/ RespondOk
  \/ RespondErr
  \/ LogRespond

Next == Collector \/ Exporter \/ Arrive \/ Stall \/ IncomingEnds
Spec == Init /\ [][Next]_vars

\* Both threads are scheduled again and again, and each of their blocking
\* calls returns: connect and read end by the peer or by a timeout, sleep
\* ends after its 5 seconds, respond returns Ok or Err. Requests are not
\* obliged to arrive.
LiveSpec == InitLive /\ [][Next]_vars /\ WF_vars(Collector) /\ WF_vars(Exporter)

\* The Collector thread alone, over every meter profile.
CollectorSpec == InitCollector /\ [][Collector]_vars

\* ------------------------------------------------------------------ claims
FamVal(fam, t) == IF t \in DOMAIN fam THEN Some(fam[t]) ELSE None

\* the six scalar fields of a Reading, the store field each is written to
\* and the position of the statement that writes it
ScalarKinds == FieldKinds \ {"tariff_indicator", "slaves"}
ReadingField(r, f) ==
  CASE f = "power_delivered" -> r.power_delivered
    [] f = "power_received" -> r.power_received
    [] f = "to0" -> r.to0
    [] f = "to1" -> r.to1
    [] f = "by0" -> r.by0
    [] f = "by1" -> r.by1
StoreVal(f) ==
  CASE f = "power_delivered" -> Some(power_consumed)
    [] f = "power_received" -> Some(power_produced)
    [] f = "to0" -> FamVal(power_consumed_total, "low")
    [] f = "to1" -> FamVal(power_consumed_total, "high")
    [] f = "by0" -> FamVal(power_produced_total, "low")
    [] f = "by1" -> FamVal(power_produced_total, "high")
StmtOf(f) ==
  CASE f = "power_delivered" -> "power_consumed"
    [] f = "power_received" -> "power_produced"
    [] f = "to0" -> "consumed_low"
    [] f = "to1" -> "consumed_high"
    [] f = "by0" -> "produced_low"
    [] f = "by1" -> "produced_high"
PcOrder ==
  [power_consumed |-> 1, power_produced |-> 2, consumed_low |-> 3,
   consumed_high |-> 4, produced_low |-> 5, produced_high |-> 6,
   tariff_clear |-> 7, tariff_match |-> 8, slaves |-> 9, next |-> 10]
ApplySteps == DOMAIN PcOrder \ {"next"}

\* C1: while a decoded Reading is applied, a scalar field the Reading does
\* not populate never changes, and a field it populates holds exactly the
\* Reading's value from the moment its statement is passed to the end of
\* the apply.
C1_ApplySetsPopulatedFields ==
  [][IsSome(state) =>
       \A f \in ScalarKinds :
         LET o == ReadingField(Unwrap(state), f) IN
           /\ o = None => StoreVal(f)' = StoreVal(f)
           /\ (o # None /\ PcOrder[pc'] > PcOrder[StmtOf(f)]) => StoreVal(f)' = o]_vars

\* C1 witness: a Reading with only high-tariff delivered energy has been
\* applied over a store whose low-tariff value came from an earlier Reading.
C1_Witness ==
  /\ IsSome(state) /\ pc = "slaves"
  /\ Unwrap(state).to0 = None /\ Unwrap(state).to1 = Some(0)
  /\ power_consumed_total = ("low" :> 1) @@ ("high" :> 0)

\* C2: applying a Reading whose tariff indicator is absent leaves every
\* active_tariff slot at the value it had before.
C2_AbsentTariffKeepsSlots ==
  [][(IsSome(state) /\ Unwrap(state).tariff_indicator = None)
       => active_tariff' = active_tariff]_vars

\* C3: in every reachable state, the states between clear, get_or_create
\* and set included, at most one active_tariff slot holds 1.
C3_AtMostOneActiveTariff ==
  Cardinality({t \in DOMAIN active_tariff : active_tariff[t] = 1}) <= 1

\* C3 witness: the high slot has just been set by a Reading applied after
\* the low tariff had been active.
C3_Witness ==
  /\ IsSome(state) /\ pc = "slaves"
  /\ Unwrap(state).tariff_indicator = Some(TariffHigh)
  /\ active_tariff = ("high" :> 1)
  /\ run = "valid"

\* C5: gas_consumed_total changes only in the slave loop of an apply, at a
\* slave of device type 3 with a meter reading, and such a slave sets it to
\* its reading's value; any other slave leaves it alone.
C5_GasOnlyFromGasMeter ==
  [][LET atSlave == IsSome(state) /\ pc = "slaves"
         s == Unwrap(state).slaves[sl]
         gas == atSlave /\ s.device_type = <<3>> /\ s.meter_reading # <<>>
     IN /\ gas_consumed_total' # gas_consumed_total => gas
        /\ gas => gas_consumed_total' = s.meter_reading[1]
        /\ (atSlave /\ ~gas) => gas_consumed_total' = gas_consumed_total]_vars

\* C5 witness: the first slave, a gas meter reading 1, has been stored and
\* the loop is at a second slave of another device type.
C5_Witness ==
  /\ IsSome(state) /\ pc = "slaves" /\ sl = 2
  /\ Unwrap(state).slaves[1] = [device_type |-> Some(GasMeter), meter_reading |-> Some(1)]
  /\ Unwrap(state).slaves[2] = [device_type |-> Some(OtherDevice), meter_reading |-> Some(0)]
  /\ gas_consumed_total = 1

\* the step in which encode() reads the active_tariff Family
SnapshotsTariff == epc = "active_tariff" /\ epc' = "gas_consumed_total"
OnesIn(fam) == {t \in DOMAIN fam : fam[t] = 1}

\* C4 as stated: in a run whose Readings all carry a low or high tariff
\* indicator, every snapshot of active_tariff taken after the first Reading
\* was applied holds exactly one slot at 1, also when it is taken while a
\* later Reading is being applied.
C4_SnapshotNeverEmpty ==
  [][(SnapshotsTariff /\ run = "valid")
       => Cardinality(OnesIn(body'[5])) = 1]_vars

\* C4 amended: such a snapshot holds at most one slot at 1 and, unless it is
\* taken between the clear and the set of a Reading's tariff update, exactly
\* one; right after the set it is the slot of the Reading being applied.
C4_SnapshotExclusive ==
  [][(SnapshotsTariff /\ run = "valid") =>
       /\ Cardinality(OnesIn(body'[5])) <= 1
       /\ ~(IsSome(state) /\ pc = "tariff_match")
            => Cardinality(OnesIn(body'[5])) = 1
       /\ (IsSome(state) /\ pc = "slaves") =>
            body'[5] = IF Unwrap(state).tariff_indicator = <<<<0, 1>>>>
                       THEN "low" :> 1 ELSE "high" :> 1]_vars

\* C4 witness: a snapshot taken after the first Reading was applied, while
\* a later Reading is being applied, holds exactly the high slot at 1.
C4_Witness ==
  /\ snap_run = "valid" /\ epc = "gas_consumed_total"
  /\ body[5] = ("high" :> 1)
  /\ IsSome(state)

\* C6: a step that changes a Metrics Store field is a step of the apply of
\* a decoded Reading on the open connection; connecting, failing to connect
\* or to set the read timeout, a decode failure, the end of the stream,
\* logging and the retry delay leave every field as it was.
C6_OnlyApplyWritesStore ==
  [][store' # store =>
       /\ IsSome(state) /\ pc \in ApplySteps
       /\ sock = "open" /\ ending = "none"
       /\ pc' \in ApplySteps \cup {"next"}]_vars

\* C6 witness: in the retry delay after a decode failure the store still
\* holds the values of the last Reading.
C6_Witness ==
  /\ ending = "decode" /\ pc = "sleep"
  /\ power_consumed = 1 /\ active_tariff = ("low" :> 1)

\* C7: the step at which decoding fails closes the connection; from then on
\* no Reading is applied and no store field changes until a new connection
\* is opened by the Connect step.
C7_DecodeFailureAbortsConnection ==
  [][/\ (ending' = "decode" /\ ending = "none")
          => (sock = "open" /\ sock' = "closed" /\ state' = None)
     /\ ending = "decode" =>
          /\ store' = store /\ state' = None
          /\ sock' # sock => (pc = "connect" /\ sock' = "open")
          /\ ending' # ending => pc = "connect"]_vars

\* C7 witness: after a Reading was applied a later telegram failed to
\* decode; the connection is closed and the Collector is about to reconnect.
C7_Witness ==
  /\ ending = "decode" /\ pc = "connect" /\ sock = "closed"
  /\ run = "valid" /\ power_consumed = 1

\* C9: the loop calls respond exactly once for every request it takes, in
\* whatever state the Collector is; after Ok the response has status 200,
\* the OpenMetrics 1.0.0 content type and the encoded snapshot as body,
\* after Err status 500 and the non-empty failure description as body.
C9_OneResponsePerRequest ==
  /\ responded <= 1
  /\ (epc \in {"accept", "log_respond", "returned"} /\ encoded # "none") => responded = 1
  /\ epc \notin {"accept", "log_respond", "returned"} => responded = 0
  /\ encoded = "none" => response = None
  /\ encoded = "ok" =>
       /\ response # None
       /\ response[1].status = 200
       /\ response[1].content_type
            = "application/openmetrics-text; version=1.0.0; charset=utf-8"
       /\ response[1].body = body
       /\ Len(body) = 7
  /\ encoded = "err" =>
       /\ response # None
       /\ response[1].status = 500
       /\ Len(response[1].body) > 0
       /\ response[1].body = <<"an error occurred when formatting an argument">>
  /\ delivered # None => (responded = 1 /\ delivered = response)

\* C9 witness: a request whose encoding failed has been answered while the
\* Collector is between the clear and the set of a tariff update.
C9_Witness ==
  /\ responded = 1 /\ encoded = "err" /\ delivered = response
  /\ IsSome(state) /\ pc = "tariff_match"

\* C8: as long as the process runs (it ends only when the listen address
\* cannot be bound at startup), every way a connection attempt ends, a
\* failed connect, a failed read-timeout setup, a decode failure, a read
\* failure or the end of the stream, leads the Collector back to the Connect
\* step, and at the Connect step it makes another attempt.
C8_CollectorAlwaysRetries ==
  /\ (alive /\ ending \in {"connect", "timeout_setup", "decode", "io", "eof"}
        /\ pc # "connect") ~> (~alive \/ pc = "connect")
  /\ (alive /\ pc = "connect" /\ slept = 1) ~> (~alive \/ slept = 0)

\* C8 witness: the retry delay after a read failure is over and the
\* Collector is at the Connect step again.
C8_Witness == alive /\ ending = "io" /\ pc = "connect" /\ slept = 1 /\ epc # "bind"

\* the current request met an encoding failure or a delivery failure
RequestFailed ==
  \/ encoded = "err" /\ epc \in {"respond", "log_respond", "accept"}
  \/ epc = "log_respond"
  \/ epc = "accept" /\ responded = 1 /\ delivered = None

\* C10: after an encoding failure or a delivery failure on one request, a
\* request waiting in the queue is taken by the loop, and every request
\* taken is answered.
C10_LoopSurvivesFailures ==
  /\ (RequestFailed /\ queue > 0) ~> (epc = "power_consumed" /\ responded = 0)
  /\ (epc = "power_consumed") ~> (responded = 1)

\* C10 witness: a delivery failure is being logged while a later request
\* waits in the queue.
C10_Witness == epc = "log_respond" /\ encoded = "ok" /\ queue > 0

\* ---------------------------------------------------------------- C11
\* a connection attempt: the step that leaves the connect position
ConnectAttempt == pc = "connect" /\ pc' # "connect"
\* the Collector has made no connection attempt yet
FirstAttempt == sock = "none" /\ ending = "none"

\* C11: between two consecutive connection attempts the Collector sleeps
\* exactly once, whatever ended the previous attempt (connect failure,
\* failure while streaming, clean end of the stream): every attempt but the
\* first is made with exactly one sleep behind it, a sleep is only taken with
\* none behind it, and an attempt resets the count.
C11_OneDelayBetweenAttempts ==
  [][/\ ConnectAttempt => (IF FirstAttempt THEN slept = 0 ELSE slept = 1) /\ slept' = 0
     /\ slept' # slept /\ ~ConnectAttempt => pc = "sleep" /\ slept = 0 /\ slept' = 1
                                              /\ pc' = "connect"
     /\ pc = "connect" /\ ~FirstAttempt => slept = 1]_vars
C11_Witness ==
  /\ pc = "set_read_timeout" /\ slept = 0 /\ sock = "open" /\ ending = "none"
  /\ power_consumed = 1
\* ---------------------------------------------------------------- C12
\* C12: on every connection the read timeout is set before the stream is
\* read (no byte reaches the decoder without it); when setting it fails the
\* connection is closed with no Reading decoded or applied; and a connection
\* whose peer stops delivering bytes does not hold the Collector: it comes
\* back to the connect step (for as long as the process runs).
C12_ReadTimeoutBoundsStall ==
  /\ [](sock = "open" /\ pc # "set_read_timeout" => read_timeout)
  /\ [][pc = "set_read_timeout" /\ pc' # pc /\ ~read_timeout'
          => /\ sock' = "closed" /\ ending' = "timeout_setup" /\ pc' = "log_collect"
             /\ state' = None /\ store' = store]_vars
  /\ [](ending = "timeout_setup" => sock = "closed" /\ state = None)
  /\ (alive /\ stalled) ~> (~alive \/ pc = "connect")
C12_Witness ==
  /\ alive /\ epc # "bind" /\ stalled /\ read_timeout /\ pc = "next" /\ sock = "open"
  /\ active_tariff = ("low" :> 1)
\* ---------------------------------------------------------------- C13
\* C13: every fault that ended a connection (a decode failure, or a read
\* failure: timeout, reset, EOF) has been logged when the Collector makes its
\* next connection attempt.
C13_FaultsAreLogged ==
  [][ConnectAttempt /\ ending \in {"decode", "io", "eof"} => logged]_vars
\* ---------------------------------------------------------------- C14
\* the positions of the Collector's loop outside collect_metrics
OutsideCollect == {"connect", "log_connect", "log_collect", "sleep"}

\* C14: the Collector holds at most one open meter connection: the
\* connection collect_metrics used is closed whenever the thread is outside
\* collect_metrics, that is before the failure is logged, before the retry
\* delay starts and before the next connect, so a connect never adds a
\* connection to one still open; and an open connection is one that has not
\* ended.
C14_ConnectionClosedBeforeRetry ==
  /\ pc \in OutsideCollect => sock # "open"
  /\ pc \notin OutsideCollect => sock = "open" /\ ending = "none"
C14_Witness ==
  pc = "sleep" /\ sock = "closed" /\ ending = "decode" /\ logged /\ slept = 0
\* ---------------------------------------------------------------- C15
\* C15: the field updates of one Reading are separate steps with nothing
\* isolating them from the Exporter's reads: a step changes at most one
\* store field, and whenever encode() has read power_consumed and then
\* power_produced between a Reading's two stores, the snapshot pairs that
\* Reading's power_consumed with the power_produced an earlier Reading
\* stored (a value the Reading in progress replaces). C15_Witness is such a
\* snapshot.
C15_FieldUpdatesNotIsolated ==
  [][/\ Cardinality({i \in 1..Len(store) : store[i]' # store[i]}) <= 1
     /\ torn # "yes" /\ torn' = "yes"
          => /\ MidPower /\ state' = state /\ pc' = pc
             /\ Len(body') = 2
             /\ body'[1] = Unwrap(Unwrap(state).power_delivered)
             /\ body'[1] = power_consumed
             /\ body'[2] = power_produced
             /\ body'[2] # 0
             /\ body'[2] # Unwrap(Unwrap(state).power_received)]_vars
C15_Witness ==
  /\ torn = "yes" /\ epc = "power_consumed_total" /\ body = <<0, 1>>
  /\ meter = {"power_delivered", "power_received"}
\* ---------------------------------------------------------------- C16
\* the positions at which a frame is read and decoded
DecodeSteps == {"next", "to_telegram", "from"}

\* C16: a telegram that fails decoding or validation is applied as nothing:
\* a Reading exists only once both decode steps succeeded, no step taken
\* while a frame is read or decoded writes a store field (active_tariff
\* included), and the step that fails leaves the store as it was and no
\* Reading behind.
C16_FailedTelegramAppliesNothing ==
  [][/\ pc \in DecodeSteps => store' = store /\ state = None
     /\ state' # None /\ state = None => pc = "from" /\ pc' = "power_consumed"
     /\ ending' = "decode" /\ ending # "decode"
          => /\ pc \in {"to_telegram", "from"} /\ pc' = "log_collect"
             /\ state' = None /\ store' = store]_vars
C16_Witness ==
  /\ ending = "decode" /\ pc = "log_collect" /\ state = None
  /\ active_tariff = ("high" :> 1) /\ power_produced = 1
\* ---------------------------------------------------------------- C17
\* the process stops on its own
ProcessEnds == alive /\ ~alive'

\* C17: the process stops on its own only when the Exporter fails to bind
\* at startup: run_metrics_server returns the error before any scrape
\* request is taken or served, main returns, and the Collector thread,
\* already started, ends with the process wherever it is.
C17_OnlyBindFailureEndsProcess ==
  [][/\ ProcessEnds
          => /\ epc = "bind" /\ epc' = "exit"
             /\ queue = 0 /\ body = <<>> /\ response = None /\ responded = 0
             /\ delivered = None
     /\ ~alive => UNCHANGED vars]_vars
====
